---- MODULE Spec2Model ----
(***************************************************************************)
(* The ffprobe text format of libavformat: the demuxer of ffprobedec.c     *)
(* (a section-oriented line reader) and the muxer of ffprobeenc.c.         *)
(*                                                                         *)
(* The input of the demuxer is a byte stream of newline-terminated lines.  *)
(* A line is modelled by what the sscanf/strcmp/av_strstart tests of the   *)
(* code can tell about it: a tag t (which key or marker it is), two        *)
(* integer fields a and b, and the characters h of a hex line.             *)
(* The demuxer runs as a step machine: every step reads one line with      *)
(* ff_get_line/ff_get_line2 and executes the code up to the next line      *)
(* read; pc names the loop that reads next.                                *)
(***************************************************************************)
EXTENDS Integers, Sequences, FiniteSets, TLC

(*************************** program constants *****************************)
SEC_NONE == 0
SEC_FORMAT == 1
SEC_STREAM == 2
SEC_PACKET == 3
MAX_NB_STREAMS == 32
BYTES_NB == 64
AV_PKT_FLAG_KEY == 1
AV_TIME_BASE == 1000000
\* INT64_MIN in the code; any value no tick count of the model takes.
AV_NOPTS_VALUE == -2147483647
AVERROR_EOF == -1
AVERROR_INVALIDDATA == -2
AVERROR_EINVAL == -3
\* Characters of a hex line and of the muxer's scratch buffer: 0..15 are the
\* hexadecimal digits, then ' ', a character outside [0-9a-fA-F], '\n', NUL.
CH_SPACE == 16
CH_OTHER == 17
CH_NL == 18
CH_NUL == 19
\* Characters of an fftextdata input, besides CH_SPACE for a space, tab, CR
\* or LF: ';', the digit '0' (of a time and of the base64 alphabet), a letter
\* (of the base64 alphabet only), a character of neither.
TD_SEMI == 20
TD_ZERO == 21
TD_ALPHA == 22
TD_BAD == 23
\* Default time base of a stream made by avformat_new_stream: 1/90000.
DEFAULT_TB_DEN == 90000

(******************************** bounds ***********************************)
\* PACKET sections a lazily drawn input may open.
MaxPackets == 2
\* Bytes a lazily drawn hex block may accumulate.
MaxData == 2
\* STREAM sections of a lazily drawn header.
MaxSections == 2
\* Packets the muxer writes before the file is read back.
MaxWritten == 2
\* Streams of a muxed file.
MaxMuxStreams == 2
\* Characters of an fftextdata input.
MaxText == 5
\* Lines of a finite input after its head.
MaxInput == 4

(********************************* lines ***********************************)
L(t, a, b, h) == [t |-> t, a |-> a, b |-> b, h |-> h]
K(t) == L(t, 0, 0, <<>>)
KA(t, a) == L(t, a, 0, <<>>)
\* End of input: ff_get_line returns 0 with avio_feof set.
EOFLINE == K("eof")
\* "\n"
BLANK == K("blank")
\* "[FORMAT]\n", "[STREAM]\n", "[PACKET]\n"; a = 0 is another line starting
\* with '[' but not with "[/", as "[FOO]\n".
OPEN(sec) == KA("open", sec)
\* A line starting with "[/"; a = 3 if it starts with "[/PACKET", else the
\* number of the section named (0 for a name that is no section).
CLOSE(sec) == KA("close", sec)
\* "pts_time=..." and the like: b = 0 a time of a microseconds, b = 1 the
\* text N/A, b = 2 a text av_parse_time rejects.
TIME(t, us) == L(t, us, 0, <<>>)
TIME_NA(t) == L(t, 0, 1, <<>>)
TIME_BAD(t) == L(t, 0, 2, <<>>)
\* "pts=5": b = 0 an integer a; b = 1 the text N/A.
RAW(t, v) == L(t, v, 0, <<>>)
RAW_NA(t) == L(t, 0, 1, <<>>)
HEX(h) == L("hex", 0, 0, h)

IsHexDigit(c) == c \in 0..15

Min(x, y) == IF x < y THEN x ELSE y
Max(x, y) == IF x > y THEN x ELSE y

(***************************** line reading ********************************)
\* read_section_start's verdict on a line: the section opened, SEC_NONE for
\* any other line, AVERROR_EOF at the end of input.
section_start(l) ==
    IF l.t = "eof" THEN AVERROR_EOF
    ELSE IF l.t = "open" /\ l.a \in {SEC_FORMAT, SEC_STREAM, SEC_PACKET} THEN l.a
    ELSE SEC_NONE

\* read_section_line: > 0 a content line, 0 the end of the section (a line
\* starting with "[/"), < 0 an error (end of input, over-long line).
read_section_line_eof(l) ==
    IF l.t = "eof" THEN AVERROR_EOF
    ELSE IF l.t = "long" THEN AVERROR_EINVAL
    ELSE IF l.t = "close" THEN 0
    ELSE 1
read_section_line(l) ==
    IF l.t = "eof" THEN AVERROR_INVALIDDATA
    ELSE IF l.t = "long" THEN AVERROR_EINVAL
    ELSE IF l.t = "close" THEN 0
    ELSE 1

\* The inner loop of read_data over one line: skip spaces, stop at the end,
\* reject a character that is no hex digit, else sscanf " %02x%n" takes one
\* or two hex digits as one byte. The bytes parsed before an error stay in
\* the accumulation buffer.
RECURSIVE hex_scan(_, _)
hex_scan(cur, acc) ==
    IF cur = <<>> THEN [ret |-> 0, bytes |-> acc]
    ELSE IF cur[1] = CH_SPACE THEN hex_scan(Tail(cur), acc)
    ELSE IF ~IsHexDigit(cur[1]) THEN [ret |-> AVERROR_INVALIDDATA, bytes |-> acc]
    ELSE IF Len(cur) >= 2 /\ IsHexDigit(cur[2])
         THEN hex_scan(SubSeq(cur, 3, Len(cur)), Append(acc, cur[1] * 16 + cur[2]))
         ELSE hex_scan(Tail(cur), Append(acc, cur[1]))

\* read_data's entry test: a non-empty accumulation buffer is an error.
read_data_entry(data) == IF Len(data) # 0 THEN AVERROR_INVALIDDATA ELSE 0

\* The rewind at the end of read_data: a closing line starting with
\* "[/PACKET" moves the position back by strlen(buf)+1, buf still holding
\* the line with its '\n'. The bytes read again are the '\n' that ends the
\* line before (it reads as an empty line) and the closing line.
read_data_rewind_line(l, rest) ==
    IF l.t = "close" /\ l.a = SEC_PACKET THEN <<K("data"), l>> \o rest ELSE rest
read_data_rewind(l, rest) ==
    IF l.t = "close" /\ l.a = SEC_PACKET THEN <<BLANK, l>> \o rest ELSE rest

(******************************* streams ***********************************)
\* avformat_new_stream: time base 1/90000, no codec, no extradata.
NewStream == [num |-> 1, den |-> DEFAULT_TB_DEN, codec |-> 0, extradata |-> <<>>]

RECURSIVE new_streams(_, _)
new_streams(streams, val) ==
    IF Len(streams) < val THEN new_streams(Append(streams, NewStream), val)
    ELSE streams

\* One content line of read_section_format.
format_line_truncate(l, streams) ==
    IF l.t = "nb_streams"
    THEN IF l.a < 0 \/ l.a > MAX_NB_STREAMS
         THEN [ret |-> AVERROR_INVALIDDATA, streams |-> streams]
         ELSE [ret |-> 1,
               streams |-> IF l.a < Len(streams) THEN SubSeq(streams, 1, l.a)
                           ELSE new_streams(streams, l.a)]
    ELSE [ret |-> 1, streams |-> streams]
format_line_nocheck(l, streams) ==
    IF l.t = "nb_streams"
    THEN [ret |-> 1, streams |-> new_streams(streams, l.a)]
    ELSE [ret |-> 1, streams |-> streams]
format_line(l, streams) ==
    IF l.t = "nb_streams"
    THEN IF l.a < 0 \/ l.a > MAX_NB_STREAMS
         THEN [ret |-> AVERROR_INVALIDDATA, streams |-> streams]
         ELSE [ret |-> 1, streams |-> new_streams(streams, l.a)]
    ELSE [ret |-> 1, streams |-> streams]

\* The "if (!st)" block of read_section_stream: st is -1 for NULL.
stream_select_any(l, streams) ==
    IF l.t = "index"
    THEN LET s1 == IF l.a >= Len(streams) THEN Append(streams, NewStream)
                   ELSE streams
         IN  IF l.a < 0
             THEN [ret |-> AVERROR_INVALIDDATA, st |-> -1, streams |-> s1]
             ELSE [ret |-> 1, st |-> Min(l.a, Len(s1) - 1), streams |-> s1]
    ELSE [ret |-> AVERROR_INVALIDDATA, st |-> -1, streams |-> streams]
stream_select(l, streams) ==
    IF l.t = "index"
    THEN LET s1 == IF l.a = Len(streams) THEN Append(streams, NewStream)
                   ELSE streams
         IN  IF l.a < 0 \/ l.a >= Len(s1)
             THEN [ret |-> AVERROR_INVALIDDATA, st |-> -1, streams |-> s1]
             ELSE [ret |-> 1, st |-> l.a, streams |-> s1]
    ELSE [ret |-> AVERROR_INVALIDDATA, st |-> -1, streams |-> streams]

\* The key tests of read_section_stream on the selected stream, but for
\* "extradata=", which calls read_data.
stream_line_nocheck(l, st, streams) ==
    IF l.t = "codec_name"
    THEN [ret |-> 1,
          streams |-> IF l.a # 0 THEN [streams EXCEPT ![st + 1].codec = l.a]
                      ELSE streams]
    ELSE IF l.t = "time_base"
    THEN [ret |-> 1,
          streams |-> [streams EXCEPT ![st + 1].num = l.a, ![st + 1].den = l.b]]
    ELSE [ret |-> 1, streams |-> streams]
stream_line(l, st, streams) ==
    IF l.t = "codec_name"
    THEN [ret |-> 1,
          streams |-> IF l.a # 0 THEN [streams EXCEPT ![st + 1].codec = l.a]
                      ELSE streams]
    ELSE IF l.t = "time_base"
    THEN IF l.a <= 0 \/ l.b <= 0
         THEN [ret |-> AVERROR_INVALIDDATA, streams |-> streams]
         ELSE [ret |-> 1,
               streams |-> [streams EXCEPT ![st + 1].num = l.a, ![st + 1].den = l.b]]
    ELSE [ret |-> 1, streams |-> streams]

\* After read_data in read_section_stream: a non-empty buffer replaces the
\* stream's extradata.
stream_extradata(st, streams, data) ==
    IF Len(data) # 0 THEN [streams EXCEPT ![st + 1].extradata = data]
    ELSE streams

(******************************* packets ***********************************)
\* av_init_packet, then stream_index = -1 and size = -1.
InitPacket == [stream_index |-> -1, size |-> -1, pts |-> AV_NOPTS_VALUE,
               dts |-> AV_NOPTS_VALUE, duration |-> 0, flags |-> 0]
\* The packet handed to the caller: the fields of p and the payload bytes.
NoPkt == [stream_index |-> -1, size |-> -1, pts |-> AV_NOPTS_VALUE,
          dts |-> AV_NOPTS_VALUE, duration |-> 0, flags |-> 0, data |-> <<>>]

\* The locals of read_section_packet.
InitLocals == [p |-> InitPacket, has_stream_index |-> FALSE,
               has_pts_time |-> FALSE, has_dts_time |-> FALSE,
               has_duration_time |-> FALSE,
               pts |-> AV_NOPTS_VALUE, dts |-> AV_NOPTS_VALUE, duration |-> 0]

\* av_rescale_rnd(a, b, c, AV_ROUND_NEAR_INF): a*b/c to the nearest integer,
\* halves away from zero.
av_rescale_rnd(a, b, c) ==
    IF a < 0 THEN 0 - ((((0 - a) * b) + (c \div 2)) \div c)
    ELSE ((a * b) + (c \div 2)) \div c
\* av_rescale_q(a, AV_TIME_BASE_Q, tb)
av_rescale_q(a, tb) == av_rescale_rnd(a, tb.den, AV_TIME_BASE * tb.num)

\* sscanf(buf, "stream_index=%d", &p.stream_index): 1 on a match, 0 on a
\* mismatch, EOF (-1) when the line ends before the first conversion, as the
\* empty line does.
sscanf_stream_index(l) ==
    IF l.t = "stream_index" THEN 1 ELSE IF l.t = "blank" THEN -1 ELSE 0

\* Lines 298-305: the stream_index test of read_section_packet. The test is
\* on sscanf's value being non-zero, so EOF passes it too.
packet_stream_index_unchecked(l, k, nb_streams) ==
    IF sscanf_stream_index(l) # 0
    THEN LET si == IF l.t = "stream_index" THEN l.a ELSE k.p.stream_index
         IN  [ret |-> 1, k |-> [k EXCEPT !.p.stream_index = si,
                                         !.has_stream_index = TRUE]]
    ELSE [ret |-> 1, k |-> k]
packet_stream_index(l, k, nb_streams) ==
    IF sscanf_stream_index(l) # 0
    THEN LET si == IF l.t = "stream_index" THEN l.a ELSE k.p.stream_index
             k1 == [k EXCEPT !.p.stream_index = si]
         IN  IF si < 0 \/ si >= nb_streams
             THEN [ret |-> AVERROR_INVALIDDATA, k |-> k1]
             ELSE [ret |-> 1, k |-> [k1 EXCEPT !.has_stream_index = TRUE]]
    ELSE [ret |-> 1, k |-> k]

\* PARSE_TIME(name_, is_duration) on one line: the raw form sets p.name_,
\* the time form sets has_name__time and the local name_.
PARSE_TIME_zero(l, name, is_duration, k) ==
    LET tname == name \o "_time"
        has == "has_" \o name \o "_time"
    IN  IF l.t = name /\ l.b = 0
        THEN [ret |-> 1, k |-> [k EXCEPT !.p[name] = l.a]]
        ELSE IF l.t = tname
        THEN LET k1 == [k EXCEPT ![has] = TRUE]
             IN  IF l.b = 1
                 THEN [ret |-> 1, k |-> [k1 EXCEPT ![name] = 0]]
                 ELSE IF l.b = 2
                 THEN [ret |-> AVERROR_EINVAL, k |-> k1]
                 ELSE [ret |-> 1, k |-> [k1 EXCEPT ![name] = l.a]]
        ELSE [ret |-> 1, k |-> k]
PARSE_TIME(l, name, is_duration, k) ==
    LET tname == name \o "_time"
        has == "has_" \o name \o "_time"
    IN  IF l.t = name /\ l.b = 0
        THEN [ret |-> 1, k |-> [k EXCEPT !.p[name] = l.a]]
        ELSE IF l.t = tname
        THEN LET k1 == [k EXCEPT ![has] = TRUE]
             IN  IF l.b = 1
                 THEN [ret |-> 1,
                       k |-> [k1 EXCEPT ![name] =
                                 IF is_duration THEN 0 ELSE AV_NOPTS_VALUE]]
                 ELSE IF l.b = 2
                 THEN [ret |-> AVERROR_EINVAL, k |-> k1]
                 ELSE [ret |-> 1, k |-> [k1 EXCEPT ![name] = l.a]]
        ELSE [ret |-> 1, k |-> k]

\* "flags=%c"
packet_flags(l, k) ==
    IF l.t = "flags"
    THEN [k EXCEPT !.p.flags = IF l.a = 1 THEN AV_PKT_FLAG_KEY ELSE 0]
    ELSE k

\* One content line of read_section_packet up to the "data=" test.
packet_line(l, k, nb_streams) ==
    LET r0 == packet_stream_index(l, k, nb_streams)
        r1 == PARSE_TIME(l, "pts", FALSE, r0.k)
        r2 == PARSE_TIME(l, "dts", FALSE, r1.k)
        r3 == PARSE_TIME(l, "duration", TRUE, r2.k)
    IN  IF r0.ret < 0 THEN r0
        ELSE IF r1.ret < 0 THEN r1
        ELSE IF r2.ret < 0 THEN r2
        ELSE IF r3.ret < 0 THEN r3
        ELSE [ret |-> 1, k |-> packet_flags(l, r3.k)]

\* Lines 342-347: a time form seen, and not N/A (not zero for the
\* duration), replaces the field by its rescaled value.
packet_times(k, tb) ==
    [k.p EXCEPT
        !.pts = IF k.has_pts_time /\ k.pts # AV_NOPTS_VALUE
                THEN av_rescale_q(k.pts, tb) ELSE @,
        !.dts = IF k.has_dts_time /\ k.dts # AV_NOPTS_VALUE
                THEN av_rescale_q(k.dts, tb) ELSE @,
        !.duration = IF k.has_duration_time /\ k.duration # 0
                     THEN av_rescale_q(k.duration, tb) ELSE @]

\* Lines 334-358: the end of read_section_packet, after the closing line.
packet_finish_nocheck(k, streams, data) ==
    IF k.p.size < 0 \/ k.p.stream_index < 0 \/ k.p.stream_index >= Len(streams)
    THEN [ret |-> SEC_NONE, pkt |-> NoPkt]
    ELSE LET p == packet_times(k, streams[k.p.stream_index + 1])
         IN  [ret |-> SEC_PACKET,
              pkt |-> [stream_index |-> p.stream_index, size |-> p.size,
                       pts |-> p.pts, dts |-> p.dts, duration |-> p.duration,
                       flags |-> p.flags,
                       data |-> SubSeq(data, 1, Min(Len(data), p.size))]]
packet_finish_strict(k, streams, data) ==
    IF ~k.has_stream_index \/ k.p.size < 0
    THEN [ret |-> AVERROR_INVALIDDATA, pkt |-> NoPkt]
    ELSE packet_finish_nocheck(k, streams, data)
packet_finish(k, streams, data) ==
    IF ~k.has_stream_index
    THEN [ret |-> AVERROR_INVALIDDATA, pkt |-> NoPkt]
    ELSE IF k.p.size < 0 \/ k.p.stream_index < 0 \/ k.p.stream_index >= Len(streams)
    THEN [ret |-> SEC_NONE, pkt |-> NoPkt]
    ELSE LET p == packet_times(k, streams[k.p.stream_index + 1])
         IN  [ret |-> SEC_PACKET,
              pkt |-> [stream_index |-> p.stream_index, size |-> p.size,
                       pts |-> p.pts, dts |-> p.dts, duration |-> p.duration,
                       flags |-> p.flags,
                       data |-> SubSeq(data, 1, Min(Len(data), p.size))]]

(***************************** vocabularies ********************************)
\* The lines a lazily drawn input is made of. Every vocabulary holds the
\* markers and the keys a well-formed file needs; each adds the lines of one
\* part of the grammar.
Markers ==
    {OPEN(SEC_FORMAT), OPEN(SEC_STREAM), OPEN(SEC_PACKET), CLOSE(SEC_PACKET)}
FormatLines ==
    Markers \cup
    {OPEN(SEC_NONE), CLOSE(SEC_FORMAT), BLANK, K("long"), K("other"),
     KA("nb_streams", 0), KA("nb_streams", 2), KA("nb_streams", MAX_NB_STREAMS),
     KA("nb_streams", MAX_NB_STREAMS + 1),
     KA("index", -1), KA("index", 0), KA("index", 1), KA("index", 3)}
StreamLines ==
    Markers \cup
    {CLOSE(SEC_STREAM), BLANK, KA("index", 0),
     KA("codec_name", 0), KA("codec_name", 1), K("extradata"),
     HEX(<<0, 1>>),
     L("time_base", 1, 1000, <<>>), L("time_base", 0, 1, <<>>),
     L("time_base", 1, 0, <<>>)}
PacketLines ==
    Markers \cup
    {CLOSE(SEC_STREAM), BLANK, K("other"), KA("index", 0),
     KA("stream_index", -1), KA("stream_index", 0), KA("stream_index", 1),
     KA("flags", 1), KA("flags", 0), K("data"),
     HEX(<<0, 1>>), HEX(<<10, 11, CH_SPACE, 0, 2>>),
     HEX(<<CH_OTHER, CH_OTHER>>), HEX(<<7>>)}
TimeCommon ==
    Markers \cup
    {KA("index", 0), L("time_base", 1, 1000, <<>>), KA("stream_index", 0),
     K("data")}
PtsLines ==
    TimeCommon \cup
    {RAW("pts", 5), RAW_NA("pts"), TIME("pts_time", 7000), TIME_NA("pts_time"),
     TIME_BAD("pts_time"), RAW("dts", 4)}
DtsLines ==
    TimeCommon \cup
    {RAW("dts", 4), RAW_NA("dts"), TIME("dts_time", 6000), TIME_NA("dts_time"),
     TIME_BAD("dts_time"), RAW("duration", 3)}
DurationLines ==
    TimeCommon \cup
    {RAW("duration", 3), RAW_NA("duration"), TIME("duration_time", 2000),
     TIME("duration_time", 0), TIME_NA("duration_time"),
     TIME_BAD("duration_time"), RAW("pts", 5)}
Vocabularies ==
    {FormatLines, StreamLines, PacketLines, PtsLines, DtsLines, DurationLines}

\* What read_data's scan sees of a line: a hex line's characters; every
\* other content line holds a character that is no hex digit.
LineChars(l) == IF l.t = "hex" THEN l.h ELSE <<CH_OTHER>>

(******************************** state ************************************)
VARIABLES
    alphabet,   \* the vocabulary of the lazily drawn input
    input,      \* lines of the file determined and not yet read
    more,       \* the environment may still supply lines after them
    pc,         \* the loop that reads the next line; "idle" between calls
    call,       \* the API call running: "none", "header", "packet"
    hdr,        \* ffprobe_read_header: called, its loop stage, its nb_streams
    ffp,        \* FFprobeContext: section, data, packet_nb
    streams,    \* avf->streams
    st,         \* read_section_stream's st (index, -1 for NULL)
    k,          \* read_section_packet's locals
    dcaller,    \* the section reader that called read_data
    result,     \* what the last API call returned
    last,       \* history: the line last read, and the loop that read it
    seen,       \* history: the keys read in the current PACKET section
    mux,        \* the muxer: its streams and the packets written
    ngot,       \* history: packets returned by ffprobe_read_packet
    td          \* the fftextdata demuxer: its input, nb_packets, last return

vars == <<alphabet, input, more, pc, call, hdr, ffp, streams, st, k, dcaller,
          result, last, seen, mux, ngot, td>>

NoResult == [call |-> "none", ret |-> 0, pkt |-> NoPkt]
NoLine == [pc |-> "idle", l |-> K("none")]
NoTime == K("none")
InitSeen == [stream_index |-> FALSE, data |-> FALSE, pts |-> FALSE,
             dts |-> FALSE, duration |-> FALSE, pts_time |-> NoTime,
             dts_time |-> NoTime, duration_time |-> NoTime]
InitHdr == [opened |-> FALSE, stage |-> "first", nb_streams |-> 0,
            noheader |-> FALSE]
InitFfp == [section |-> SEC_NONE, data |-> <<>>, packet_nb |-> 0]

SeenLine(sn, l) ==
    IF l.t \in {"stream_index", "data"} THEN [sn EXCEPT ![l.t] = TRUE]
    ELSE IF l.t \in {"pts", "dts", "duration"} /\ l.b = 0
    THEN [sn EXCEPT ![l.t] = TRUE]
    ELSE IF l.t \in {"pts_time", "dts_time", "duration_time"}
    THEN [sn EXCEPT ![l.t] = l]
    ELSE sn

\* The packet fftextdata_read_packet is given, after av_init_packet.
NoTdPkt == [pts |-> AV_NOPTS_VALUE, size |-> -1, flags |-> 0]
NoTdResult == [call |-> "none", ret |-> 0, pkt |-> NoTdPkt, warned |-> FALSE,
               token |-> <<>>]
InitTd == [state |-> "none", txt |-> <<>>, nb_packets |-> 0,
           result |-> NoTdResult]

InitCommon ==
    /\ pc = "idle" /\ call = "none" /\ hdr = InitHdr /\ ffp = InitFfp
    /\ streams = <<>> /\ st = -1 /\ k = InitLocals /\ dcaller = "none"
    /\ result = NoResult /\ last = NoLine /\ seen = InitSeen /\ ngot = 0

\* Demuxing a file of any content.
Init ==
    /\ alphabet \in Vocabularies
    /\ input = <<>> /\ more = TRUE
    /\ mux = [state |-> "none", streams |-> <<>>, written |-> <<>>]
    /\ td = InitTd
    /\ InitCommon

(****************************** reading a line *****************************)
\* The lines the next ff_get_line may return: the next determined line, or
\* any line of the vocabulary, or the end of input.
Avail ==
    IF input # <<>> THEN {Head(input)}
    ELSE IF more THEN alphabet \cup {EOFLINE}
    ELSE {EOFLINE}

\* The bounds on a lazily drawn input.
Allowed(l) ==
    \/ input # <<>>
    \/ /\ (pc = "start" /\ l = OPEN(SEC_PACKET)) => ffp.packet_nb < MaxPackets
       /\ (pc = "start" /\ call = "header" /\ l = OPEN(SEC_STREAM)) =>
              hdr.nb_streams < MaxSections
       /\ (pc = "data" /\ l.t = "hex") =>
              Len(ffp.data) + Len(hex_scan(l.h, <<>>).bytes) <= MaxData

Rest == IF input # <<>> THEN Tail(input) ELSE input

Took(l) ==
    /\ more' = IF input = <<>> /\ l.t = "eof" THEN FALSE ELSE more
    /\ last' = [pc |-> pc, l |-> l]
    /\ UNCHANGED <<alphabet, mux, td>>

(******************************* control ***********************************)
\* The API call returns ret: the locals go out of scope.
Ret(ret, pkt, f, h) ==
    /\ pc' = "idle" /\ call' = "none"
    /\ result' = [call |-> call, ret |-> ret, pkt |-> pkt]
    /\ ffp' = f
    /\ hdr' = [h EXCEPT !.stage = "first", !.nb_streams = 0]
    /\ st' = -1 /\ k' = InitLocals /\ dcaller' = "none"
    /\ ngot' = IF call = "packet" /\ ret = 0 THEN ngot + 1 ELSE ngot
    /\ seen' = seen

\* The call goes on to read its next line in loop p.
Goto(p, f, h, st1, k1, dc, sn) ==
    /\ pc' = p /\ ffp' = f /\ hdr' = h /\ st' = st1 /\ k' = k1
    /\ dcaller' = dc /\ seen' = sn
    /\ UNCHANGED <<call, result, ngot>>

\* A section reader starts: read_section_stream and read_section_packet
\* clear the accumulation buffer and initialize their locals.
Begin(sec, f, h) ==
    IF sec = SEC_FORMAT
    THEN Goto("format", f, h, -1, InitLocals, "none", seen)
    ELSE IF sec = SEC_STREAM
    THEN Goto("stream", [f EXCEPT !.data = <<>>], h, -1, InitLocals, "none", seen)
    ELSE Goto("packet", [f EXCEPT !.data = <<>>], h, -1, InitLocals, "none",
              InitSeen)

\* read_section: read section starts while no section is open, then run the
\* reader of the open section.
read_section(f, h) ==
    IF f.section = SEC_NONE
    THEN Goto("start", f, h, -1, InitLocals, "none", seen)
    ELSE Begin(f.section, f, h)

\* read_section counts the PACKET sections read, whatever they returned.
count_packet(reader, n) == IF reader = "packet" THEN n + 1 ELSE n

\* The end of ffprobe_read_header: the STREAM sections counted against
\* avf->nb_streams.
header_count_nocheck(nb_streams, avf_nb_streams) == 0
header_count(nb_streams, avf_nb_streams) ==
    IF nb_streams # avf_nb_streams THEN AVERROR_INVALIDDATA ELSE 0

\* A section reader returns ret to ffprobe_read_header's loop or, through
\* read_section, to ffprobe_read_packet's loop.
SectionDone(reader, ret, pkt, f) ==
    IF call = "header"
    THEN IF ret < 0 THEN Ret(ret, NoPkt, f, hdr)
         ELSE Goto("start", f,
                   [hdr EXCEPT !.stage = "streams",
                               !.nb_streams = IF reader = "stream" THEN @ + 1 ELSE @],
                   -1, InitLocals, "none", seen)
    ELSE LET f2 == [f EXCEPT !.packet_nb = count_packet(reader, @)]
         IN  IF ret < 0 THEN Ret(ret, NoPkt, f2, hdr)
             ELSE IF ret = SEC_PACKET THEN Ret(0, pkt, f2, hdr)
             ELSE read_section(f2, hdr)

\* read_section_line sets section to SEC_NONE on a closing line.
close_section(f, r) == IF r = 0 THEN [f EXCEPT !.section = SEC_NONE] ELSE f

(******************************* actions ***********************************)
\* The call of ffprobe_read_header, up to its first line read. (The strict
\* option is set to experimental.)
ffprobe_read_header ==
    /\ pc = "idle" /\ ~hdr.opened /\ mux.state \in {"none", "open"}
    /\ call' = "header" /\ pc' = "start"
    /\ hdr' = [opened |-> TRUE, stage |-> "first", nb_streams |-> 0,
               noheader |-> FALSE]
    /\ ffp' = InitFfp
    /\ result' = NoResult /\ last' = NoLine
    /\ mux' = [mux EXCEPT !.state = IF @ = "open" THEN "closed" ELSE @]
    /\ UNCHANGED <<alphabet, input, more, streams, st, k, dcaller, seen, ngot, td>>

\* The call of ffprobe_read_packet after a call that succeeded, up to its
\* first line read.
ffprobe_read_packet ==
    /\ pc = "idle" /\ result.call # "none" /\ result.ret = 0
    /\ call' = "packet" /\ result' = NoResult /\ last' = NoLine
    /\ ngot' = ngot
    /\ IF ffp.section = SEC_NONE
       THEN /\ pc' = "start" /\ seen' = InitSeen
            /\ UNCHANGED <<ffp, hdr, st, k, dcaller>>
       ELSE /\ pc' = IF ffp.section = SEC_FORMAT THEN "format"
                     ELSE IF ffp.section = SEC_STREAM THEN "stream" ELSE "packet"
            /\ ffp' = IF ffp.section = SEC_FORMAT THEN ffp
                      ELSE [ffp EXCEPT !.data = <<>>]
            /\ seen' = InitSeen
            /\ UNCHANGED <<hdr, st, k, dcaller>>
    /\ UNCHANGED <<alphabet, input, more, streams, mux, td>>

\* One read_section_start, in ffprobe_read_header or in read_section.
read_section_start ==
    /\ pc = "start"
    /\ \E l \in Avail :
        /\ Allowed(l)
        /\ input' = Rest /\ Took(l) /\ streams' = streams
        /\ LET ret == section_start(l)
               f == IF ret > 0 THEN [ffp EXCEPT !.section = ret] ELSE ffp
           IN  IF call = "header"
               THEN IF hdr.stage = "first"
                    THEN IF ret < 0 THEN Ret(ret, NoPkt, f, hdr)
                         ELSE IF ret # SEC_FORMAT
                         THEN Ret(0, NoPkt, f, [hdr EXCEPT !.noheader = TRUE])
                         ELSE Begin(SEC_FORMAT, f, hdr)
                    ELSE IF ret # SEC_STREAM
                         THEN Ret(header_count(hdr.nb_streams, Len(streams)),
                                  NoPkt, f, hdr)
                         ELSE Begin(SEC_STREAM, f, hdr)
               ELSE IF ret < 0 THEN Ret(ret, NoPkt, f, hdr)
                    ELSE read_section(f, hdr)

\* One turn of read_section_format's loop.
read_section_format ==
    /\ pc = "format"
    /\ \E l \in Avail :
        /\ Allowed(l)
        /\ input' = Rest /\ Took(l)
        /\ LET r == read_section_line(l)
               f == close_section(ffp, r)
               fl == format_line(l, streams)
           IN  IF r < 0 THEN streams' = streams /\ SectionDone("format", r, NoPkt, f)
               ELSE IF r = 0
               THEN streams' = streams /\ SectionDone("format", SEC_FORMAT, NoPkt, f)
               ELSE /\ streams' = fl.streams
                    /\ IF fl.ret < 0 THEN SectionDone("format", fl.ret, NoPkt, f)
                       ELSE Goto("format", f, hdr, st, k, "none", seen)

\* One turn of read_section_stream's loop.
read_section_stream ==
    /\ pc = "stream"
    /\ \E l \in Avail :
        /\ Allowed(l)
        /\ input' = Rest /\ Took(l)
        /\ LET r == read_section_line(l)
               f == close_section(ffp, r)
               sel == IF st = -1 THEN stream_select(l, streams)
                      ELSE [ret |-> 1, st |-> st, streams |-> streams]
               sl == stream_line(l, sel.st, sel.streams)
           IN  IF r < 0 THEN streams' = streams /\ SectionDone("stream", r, NoPkt, f)
               ELSE IF r = 0
               THEN streams' = streams /\ SectionDone("stream", SEC_STREAM, NoPkt, f)
               ELSE IF sel.ret < 0
               THEN streams' = sel.streams /\ SectionDone("stream", sel.ret, NoPkt, f)
               ELSE IF l.t = "extradata"
               THEN /\ streams' = sel.streams
                    /\ IF read_data_entry(f.data) < 0
                       THEN SectionDone("stream", read_data_entry(f.data), NoPkt, f)
                       ELSE Goto("data", f, hdr, sel.st, k, "stream", seen)
               ELSE /\ streams' = sl.streams
                    /\ IF sl.ret < 0 THEN SectionDone("stream", sl.ret, NoPkt, f)
                       ELSE Goto("stream", f, hdr, sel.st, k, "none", seen)

\* One turn of read_section_packet's loop; on the closing line, the rest of
\* the function.
read_section_packet ==
    /\ pc = "packet"
    /\ \E l \in Avail :
        /\ Allowed(l)
        /\ input' = Rest /\ Took(l) /\ streams' = streams
        /\ LET r == read_section_line(l)
               f == close_section(ffp, r)
               pl == packet_line(l, k, Len(streams))
               fin == packet_finish(k, streams, f.data)
               sn == SeenLine(seen, l)
           IN  IF r < 0 THEN SectionDone("packet", r, NoPkt, f)
               ELSE IF r = 0 THEN SectionDone("packet", fin.ret, fin.pkt, f)
               ELSE IF pl.ret < 0 THEN SectionDone("packet", pl.ret, NoPkt, f)
               ELSE IF l.t = "data"
               THEN IF read_data_entry(f.data) < 0
                    THEN SectionDone("packet", read_data_entry(f.data), NoPkt, f)
                    ELSE Goto("data", f, hdr, st, pl.k, "packet", sn)
               ELSE Goto("packet", f, hdr, st, pl.k, "none", sn)

\* One turn of read_data's loop; on a blank or closing line, the rest of the
\* function and the caller's statements after the call.
read_data ==
    /\ pc = "data"
    /\ \E l \in Avail :
        /\ Allowed(l)
        /\ Took(l)
        /\ LET r == read_section_line(l)
               f == close_section(ffp, r)
               hs == hex_scan(LineChars(l), <<>>)
               f2 == [f EXCEPT !.data = @ \o hs.bytes]
           IN  IF r < 0
               THEN /\ input' = Rest /\ streams' = streams
                    /\ SectionDone(dcaller, r, NoPkt, f)
               ELSE IF r = 0 \/ l.t = "blank"
               THEN /\ input' = read_data_rewind(l, Rest)
                    /\ IF dcaller = "packet"
                       THEN /\ streams' = streams
                            /\ Goto("packet", f, hdr, st,
                                    [k EXCEPT !.p.size = Len(f.data)], "none", seen)
                       ELSE /\ streams' = stream_extradata(st, streams, f.data)
                            /\ Goto("stream", f, hdr, st, k, "none", seen)
               ELSE /\ input' = Rest /\ streams' = streams
                    /\ IF hs.ret < 0 THEN SectionDone(dcaller, hs.ret, NoPkt, f2)
                       ELSE Goto("data", f2, hdr, st, k, dcaller, seen)

Next ==
    \/ ffprobe_read_header
    \/ ffprobe_read_packet
    \/ read_section_start
    \/ read_section_format
    \/ read_section_stream
    \/ read_section_packet
    \/ read_data

Spec == Init /\ [][Next]_vars

\* Demuxing a finite file: all its lines are determined from the start, a
\* head followed by any lines of FinLines. Between a call and its return
\* the code runs on: a pending line read is eventually done.
FinLines ==
    {OPEN(SEC_PACKET), CLOSE(SEC_PACKET), KA("stream_index", 0), K("data"),
     HEX(<<0, 1>>), BLANK}
FinHeads ==
    {<<>>,
     <<OPEN(SEC_STREAM), KA("index", 0), CLOSE(SEC_STREAM), OPEN(SEC_PACKET),
       KA("stream_index", 0)>>,
     <<OPEN(SEC_FORMAT), CLOSE(SEC_FORMAT), OPEN(SEC_STREAM), KA("index", 0),
       K("extradata"), HEX(<<0, 1>>), CLOSE(SEC_STREAM)>>,
     <<OPEN(SEC_FORMAT), CLOSE(SEC_FORMAT), OPEN(SEC_STREAM), KA("index", 0),
       K("extradata"), CLOSE(SEC_PACKET)>>}
FinBodies == UNION {[1..n -> FinLines] : n \in 0..MaxInput}
FinInputs == {h \o b : h \in FinHeads, b \in FinBodies}

InitFin ==
    /\ alphabet = FinLines
    /\ input \in FinInputs /\ more = FALSE
    /\ mux = [state |-> "none", streams |-> <<>>, written |-> <<>>]
    /\ td = InitTd
    /\ InitCommon

Running ==
    \/ read_section_start
    \/ read_section_format
    \/ read_section_stream
    \/ read_section_packet
    \/ read_data

SpecFin == InitFin /\ [][Next]_vars /\ WF_vars(Running)

(******************************** muxer ************************************)
\* "%f" of av_q2d(time_base) * ticks prints the seconds with six decimals,
\* the microseconds to the nearest; av_parse_time reads that text back as
\* the same number of microseconds, which is what a time line carries.
ticks_to_us(v, tb) == av_rescale_rnd(v, tb.num * AV_TIME_BASE, tb.den)

\* The index of the first character c of s, Len(s) + 1 if there is none.
first_index(s, c) ==
    IF \E x \in 1..Len(s) : s[x] = c
    THEN CHOOSE x \in 1..Len(s) : s[x] = c /\ \A y \in 1..(x - 1) : s[y] # c
    ELSE Len(s) + 1

\* The C string in buf: the characters before the first NUL.
c_str(buf) == SubSeq(buf, 1, first_index(buf, CH_NUL) - 1)

\* A store into buf[BYTES_NB * 2 + 2] at 0-based index i; a store past the
\* end leaves buf alone and is recorded.
buf_store(b, i, c) ==
    IF i < BYTES_NB * 2 + 2
    THEN [b EXCEPT !.buf[i + 1] = c]
    ELSE [b EXCEPT !.overrun = TRUE]

\* The loop of ffprobe_write_data from (i, j) up to its next avio_printf or
\* its end: sprintf "%02x" stores two digits and a NUL at buf + 2*j.
RECURSIVE write_data_fill(_, _, _, _)
write_data_fill(data, i, j, b) ==
    IF i >= Len(data) THEN [i |-> i, j |-> j, b |-> b]
    ELSE LET d == data[i + 1]
             b1 == buf_store(buf_store(buf_store(b, 2 * j, d \div 16),
                                       2 * j + 1, d % 16),
                             2 * j + 2, CH_NUL)
         IN  IF j = BYTES_NB \/ Len(b1.buf) # BYTES_NB * 2 + 2
             THEN [i |-> i, j |-> j, b |-> b1]
             ELSE write_data_fill(data, i + 1, j + 1, b1)

\* The loop of ffprobe_write_data: when j is BYTES_NB the buffer is cut at
\* buf[j], printed, and j restarts at 0 before the loop's j++.
RECURSIVE write_data_loop(_, _, _, _)
write_data_loop(data, i, j, b) ==
    LET f == write_data_fill(data, i, j, b)
    IN  IF f.i >= Len(data) THEN f.b
        ELSE LET b2 == buf_store(buf_store(f.b, f.j, CH_NL), f.j + 1, CH_NUL)
                 b3 == [b2 EXCEPT !.txt = @ \o c_str(b2.buf)]
             IN  write_data_loop(data, f.i + 1, 1, b3)

\* The text cut into lines at '\n'; a text that does not end in '\n' ends
\* in a line the end of input cuts.
RECURSIVE split_lines(_)
split_lines(txt) ==
    IF txt = <<>> THEN <<>>
    ELSE LET n == first_index(txt, CH_NL)
             cur == SubSeq(txt, 1, n - 1)
         IN  <<IF cur = <<>> THEN BLANK ELSE HEX(cur)>>
             \o split_lines(SubSeq(txt, n + 1, Len(txt)))

\* buf before the loop. (Its content is indeterminate in the code; no
\* character is read before it is stored.)
InitBuf ==
    [buf |-> [x \in 1..(BYTES_NB * 2 + 2) |-> CH_NUL], txt |-> <<>>,
     overrun |-> FALSE]

\* ffprobe_write_data: "data=\n", the lines printed by the loop, "\n".
ffprobe_write_data(data) ==
    LET b == write_data_loop(data, 0, 0, InitBuf)
    IN  [lines |-> <<K("data")>> \o split_lines(b.txt \o <<CH_NL>>),
         overrun |-> b.overrun]

\* The payloads handed to the muxer, and what ffprobe_write_data writes for
\* each of them.
Payload(n) == [i \in 1..n |-> (i * 37) % 256]
Payloads == {Payload(n) : n \in {0, 1, BYTES_NB + 1, 2 * BYTES_NB + 1}}
WrittenData == [d \in Payloads |-> ffprobe_write_data(d)]

\* The lines of one time stamp of ffprobe_write_packet.
write_time(name, v, unset, tb) ==
    IF v # unset
    THEN <<TIME(name \o "_time", ticks_to_us(v, tb)), RAW(name, v)>>
    ELSE <<RAW_NA(name)>>

header_lines(ss) ==
    <<OPEN(SEC_FORMAT), KA("nb_streams", Len(ss)), K("format_name"),
      CLOSE(SEC_FORMAT)>>
stream_lines(ss, i) ==
    <<OPEN(SEC_STREAM), KA("index", i - 1), KA("codec_name", ss[i].codec),
      L("time_base", ss[i].num, ss[i].den, <<>>), CLOSE(SEC_STREAM)>>
RECURSIVE all_stream_lines(_, _)
all_stream_lines(ss, i) ==
    IF i > Len(ss) THEN <<>>
    ELSE stream_lines(ss, i) \o all_stream_lines(ss, i + 1)

packet_lines_flags_first(pkt, tb) ==
    <<OPEN(SEC_PACKET), K("codec_type"), KA("stream_index", pkt.stream_index)>>
    \o <<KA("flags", IF pkt.flags = AV_PKT_FLAG_KEY THEN 1 ELSE 0)>>
    \o write_time("pts", pkt.pts, AV_NOPTS_VALUE, tb)
    \o write_time("dts", pkt.dts, AV_NOPTS_VALUE, tb)
    \o write_time("duration", pkt.duration, 0, tb)
    \o WrittenData[pkt.data].lines
    \o <<CLOSE(SEC_PACKET)>>
packet_lines(pkt, tb) ==
    <<OPEN(SEC_PACKET), K("codec_type"), KA("stream_index", pkt.stream_index)>>
    \o write_time("pts", pkt.pts, AV_NOPTS_VALUE, tb)
    \o write_time("dts", pkt.dts, AV_NOPTS_VALUE, tb)
    \o write_time("duration", pkt.duration, 0, tb)
    \o <<KA("flags", IF pkt.flags = AV_PKT_FLAG_KEY THEN 1 ELSE 0)>>
    \o WrittenData[pkt.data].lines
    \o <<CLOSE(SEC_PACKET)>>

\* The streams and packets handed to the muxer.
MuxTimeBase(i) == [num |-> 1, den |-> IF i % 2 = 1 THEN 1000 ELSE 25, codec |-> 1]
MuxStreamSets == {[i \in 1..n |-> MuxTimeBase(i)] : n \in 1..MaxMuxStreams}
MuxPackets(n) ==
    {[stream_index |-> si, size |-> Len(d),
      pts |-> IF ts THEN 5 ELSE AV_NOPTS_VALUE,
      dts |-> IF ts THEN 4 ELSE AV_NOPTS_VALUE,
      duration |-> IF ts THEN 3 ELSE 0,
      flags |-> fl, data |-> d] :
        si \in 0..(n - 1), ts \in BOOLEAN, fl \in {0, AV_PKT_FLAG_KEY},
        d \in Payloads}

ffprobe_write_header ==
    /\ mux.state = "init"
    /\ mux' = [mux EXCEPT !.state = "open"]
    /\ input' = input \o header_lines(mux.streams)
                      \o all_stream_lines(mux.streams, 1)
    /\ UNCHANGED <<alphabet, more, pc, call, hdr, ffp, streams, st, k, dcaller,
                   result, last, seen, ngot, td>>

\* The store past the end of buf is undefined behaviour: the call goes on
\* as if nothing happened, or the process dies and the file is not read.
ffprobe_write_packet ==
    /\ mux.state = "open" /\ Len(mux.written) < MaxWritten
    /\ \E pkt \in MuxPackets(Len(mux.streams)) :
        /\ input' = input \o packet_lines(pkt, mux.streams[pkt.stream_index + 1])
        /\ \E crash \in {FALSE, WrittenData[pkt.data].overrun} :
              mux' = [mux EXCEPT !.written = Append(@, pkt),
                                 !.state = IF crash THEN "crashed" ELSE @]
    /\ UNCHANGED <<alphabet, more, pc, call, hdr, ffp, streams, st, k, dcaller,
                   result, last, seen, ngot, td>>

\* Muxing a file, then demuxing it.
InitRT ==
    /\ alphabet = {}
    /\ input = <<>> /\ more = FALSE
    /\ \E ss \in MuxStreamSets :
          mux = [state |-> "init", streams |-> ss, written |-> <<>>]
    /\ td = InitTd
    /\ InitCommon

NextRT ==
    \/ ffprobe_write_header
    \/ ffprobe_write_packet
    \/ Next

SpecRT == InitRT /\ [][NextRT]_vars

\* Muxing a file.
NextMux ==
    \/ ffprobe_write_header
    \/ ffprobe_write_packet

SpecMux == InitRT /\ [][NextMux]_vars

(**************************** fftextdata demuxer ***************************)
\* avio_r8 returns 0 at the end of input. "skip spaces": the first
\* character that is no space, and the input after it.
RECURSIVE skip_spaces(_)
skip_spaces(txt) ==
    IF txt = <<>> THEN [c |-> CH_NUL, rest |-> <<>>]
    ELSE IF txt[1] = CH_SPACE THEN skip_spaces(Tail(txt))
    ELSE [c |-> txt[1], rest |-> Tail(txt)]

\* "read word" of read_word: up to the end of input or a space, which is
\* put back.
RECURSIVE word_chars(_, _)
word_chars(txt, bp) ==
    IF txt = <<>> \/ txt[1] = CH_SPACE THEN [bp |-> bp, rest |-> txt]
    ELSE word_chars(Tail(txt), Append(bp, txt[1]))

read_word(txt) ==
    LET s == skip_spaces(txt)
    IN  IF s.c = CH_NUL THEN [bp |-> <<>>, rest |-> s.rest]
        ELSE word_chars(s.rest, <<s.c>>)

\* "read data chunk" of fftextdatadec.c's read_data: up to the end of input
\* or a ';', which is consumed; spaces are dropped.
RECURSIVE data_chars(_, _)
data_chars(txt, bp) ==
    IF txt = <<>> THEN [bp |-> bp, rest |-> txt]
    ELSE IF txt[1] = TD_SEMI THEN [bp |-> bp, rest |-> Tail(txt)]
    ELSE IF txt[1] = CH_SPACE THEN data_chars(Tail(txt), bp)
    ELSE data_chars(Tail(txt), Append(bp, txt[1]))

td_read_data(txt) ==
    LET s == skip_spaces(txt)
    IN  IF s.c = CH_NUL THEN [bp |-> <<>>, rest |-> s.rest]
        ELSE data_chars(s.rest, <<s.c>>)

\* av_parse_time(&pts, str, 1): a run of '0' is zero seconds; a text with
\* another character of the model is no time.
td_parse_time(w) ==
    IF \A i \in 1..Len(w) : w[i] = TD_ZERO
    THEN [ret |-> 0, pts |-> 0]
    ELSE [ret |-> AVERROR_EINVAL, pts |-> AV_NOPTS_VALUE]

\* av_base64_decode(out, in, AV_BASE64_DECODE_SIZE(len)): the number of
\* bytes decoded, an error on a character outside the alphabet.
av_base64_decode(w) ==
    IF \A i \in 1..Len(w) : w[i] \in {TD_ZERO, TD_ALPHA}
    THEN (Len(w) * 3) \div 4
    ELSE AVERROR_INVALIDDATA

\* The body of fftextdata_read_packet on the input txt.
td_packet_nokey(txt, nb) ==
    LET w == read_word(txt)
        t == td_parse_time(w.bp)
        d == td_read_data(w.rest)
        n == av_base64_decode(d.bp)
        fail(ret, rest, warned, tok) ==
            [txt |-> rest, nb_packets |-> nb,
             result |-> [call |-> "packet", ret |-> ret, pkt |-> NoTdPkt,
                         warned |-> warned, token |-> tok]]
    IN  IF Len(w.bp) = 0 THEN fail(AVERROR_EOF, w.rest, FALSE, <<>>)
        ELSE IF t.ret < 0 THEN fail(t.ret, w.rest, FALSE, <<>>)
        ELSE IF Len(d.bp) = 0 THEN fail(AVERROR_EOF, d.rest, TRUE, <<>>)
        ELSE IF n < 0 THEN fail(n, d.rest, FALSE, d.bp)
        ELSE [txt |-> d.rest, nb_packets |-> nb + 1,
              result |-> [call |-> "packet", ret |-> n,
                          pkt |-> [pts |-> t.pts, size |-> n, flags |-> 0],
                          warned |-> FALSE, token |-> d.bp]]
td_packet(txt, nb) ==
    LET w == read_word(txt)
        t == td_parse_time(w.bp)
        d == td_read_data(w.rest)
        n == av_base64_decode(d.bp)
        fail(ret, rest, warned, tok) ==
            [txt |-> rest, nb_packets |-> nb,
             result |-> [call |-> "packet", ret |-> ret, pkt |-> NoTdPkt,
                         warned |-> warned, token |-> tok]]
    IN  IF Len(w.bp) = 0 THEN fail(AVERROR_EOF, w.rest, FALSE, <<>>)
        ELSE IF t.ret < 0 THEN fail(t.ret, w.rest, FALSE, <<>>)
        ELSE IF Len(d.bp) = 0 THEN fail(AVERROR_EOF, d.rest, TRUE, <<>>)
        ELSE IF n < 0 THEN fail(n, d.rest, FALSE, d.bp)
        ELSE [txt |-> d.rest, nb_packets |-> nb + 1,
              result |-> [call |-> "packet", ret |-> n,
                          pkt |-> [pts |-> t.pts, size |-> n,
                                   flags |-> AV_PKT_FLAG_KEY],
                          warned |-> FALSE, token |-> d.bp]]

TdChars == {CH_SPACE, TD_SEMI, TD_ZERO, TD_ALPHA, TD_BAD}
TdTexts == UNION {[1..n -> TdChars] : n \in 0..MaxText}

\* fftextdata_read_header (the codec name is a known one).
fftextdata_read_header ==
    /\ td.state = "init"
    /\ td' = [td EXCEPT !.state = "open", !.nb_packets = 0,
                         !.result = [NoTdResult EXCEPT !.call = "header"]]
    /\ UNCHANGED <<alphabet, input, more, pc, call, hdr, ffp, streams, st, k,
                   dcaller, result, last, seen, mux, ngot>>

\* One call of fftextdata_read_packet, after a call that did not fail.
fftextdata_read_packet ==
    /\ td.state = "open" /\ td.result.ret >= 0
    /\ LET r == td_packet(td.txt, td.nb_packets)
       IN  td' = [td EXCEPT !.txt = r.txt, !.nb_packets = r.nb_packets,
                            !.result = r.result]
    /\ UNCHANGED <<alphabet, input, more, pc, call, hdr, ffp, streams, st, k,
                   dcaller, result, last, seen, mux, ngot>>

\* Demuxing an fftextdata input of any content.
InitTD ==
    /\ alphabet = {}
    /\ input = <<>> /\ more = FALSE
    /\ mux = [state |-> "none", streams |-> <<>>, written |-> <<>>]
    /\ \E t \in TdTexts : td = [InitTd EXCEPT !.state = "init", !.txt = t]
    /\ InitCommon

NextTD ==
    \/ fftextdata_read_header
    \/ fftextdata_read_packet

SpecTD == InitTD /\ [][NextTD]_vars

(******************************** claims ***********************************)
Readers == {"format", "stream", "packet", "data"}
Fields == {"pts", "dts", "duration"}
SamePacket(p, q) ==
    /\ p.stream_index = q.stream_index /\ p.flags = q.flags
    /\ p.data = q.data /\ p.size = Len(q.data)
    /\ p.pts = q.pts /\ p.dts = q.dts /\ p.duration = q.duration

\* C1: a muxed file read back gives the streams written, with their time
\* bases, and one packet per packet written, in order, with the same stream
\* index, flags, payload and time stamps; then the end of the file.
C1_RoundTrip ==
    (mux.state = "closed" /\ pc = "idle") =>
        /\ result.call = "header" =>
              /\ result.ret = 0
              /\ Len(streams) = Len(mux.streams)
              /\ \A i \in 1..Len(streams) :
                    /\ streams[i].num = mux.streams[i].num
                    /\ streams[i].den = mux.streams[i].den
        /\ (result.call = "packet" /\ result.ret = 0) =>
              /\ ngot <= Len(mux.written)
              /\ SamePacket(result.pkt, mux.written[ngot])
        /\ (result.call = "packet" /\ result.ret # 0) =>
              /\ result.ret = AVERROR_EOF
              /\ ngot = Len(mux.written)

\* C2: once read_data has read the hex block ffprobe_write_data wrote for a
\* payload, the accumulation buffer holds that payload and the size reported
\* is its length.
C2_HexRoundTrip ==
    (mux.state = "closed" /\ pc = "packet" /\ k.p.size >= 0) =>
        /\ ffp.packet_nb < Len(mux.written)
        /\ ffp.data = mux.written[ffp.packet_nb + 1].data
        /\ k.p.size = Len(mux.written[ffp.packet_nb + 1].data)

\* C3: a line starting with "[/" read inside a section ends the section: the
\* section is SEC_NONE and the next line is read as a section start (read
\* again first, when read_data moved the position back before it).
C3_LooseClose ==
    (last.pc \in Readers /\ last.l.t = "close") =>
        /\ ffp.section = SEC_NONE
        /\ \/ pc \in {"start", "idle"}
           \/ Len(input) >= 2 /\ input[2] = last.l

\* C4: the end of input read inside a section makes the running call return
\* AVERROR_INVALIDDATA, with no packet.
C4_Unterminated ==
    (last.pc \in Readers /\ last.l = EOFLINE) =>
        /\ pc = "idle"
        /\ result.ret = AVERROR_INVALIDDATA
        /\ result.pkt = NoPkt
C4_Witness ==
    /\ last.pc \in Readers /\ last.l = EOFLINE
    /\ result.call = "packet" /\ ffp.section = SEC_PACKET

\* C5: in read_section_format a line nb_streams=v with v > 32 fails with
\* AVERROR_INVALIDDATA and makes no stream; with 0 <= v <= 32 the loop goes
\* on and the stream count is the larger of the count before and v.
C5_StreamCountBound ==
    [][(pc = "format" /\ last'.l.t = "nb_streams") =>
          IF last'.l.a > MAX_NB_STREAMS
          THEN /\ pc' = "idle" /\ result'.ret = AVERROR_INVALIDDATA
               /\ streams' = streams
          ELSE IF last'.l.a >= 0
          THEN /\ pc' = "format"
               /\ Len(streams') = Max(Len(streams), last'.l.a)
               /\ SubSeq(streams', 1, Len(streams)) = streams
          ELSE TRUE]_vars
C5_Witness ==
    /\ last.pc = "format" /\ last.l = KA("nb_streams", MAX_NB_STREAMS)
    /\ pc = "format" /\ Len(streams) = MAX_NB_STREAMS

\* C6: the first content line of a STREAM section must be index=i: i equal
\* to the stream count appends one stream and selects it, 0 <= i < count
\* selects stream i and leaves the count, any other i and any other first
\* line fail with AVERROR_INVALIDDATA.
C6_StreamIndex ==
    [][(pc = "stream" /\ st = -1 /\ last'.l.t \notin {"close", "eof", "long"}) =>
          LET i == last'.l.a
          IN  IF last'.l.t = "index" /\ i = Len(streams)
              THEN /\ streams' = Append(streams, NewStream)
                   /\ st' = i /\ pc' = "stream"
              ELSE IF last'.l.t = "index" /\ 0 <= i /\ i < Len(streams)
              THEN /\ streams' = streams /\ st' = i /\ pc' = "stream"
              ELSE /\ pc' = "idle" /\ result'.ret = AVERROR_INVALIDDATA
                   /\ streams' = streams]_vars
C6_Witness ==
    /\ last.pc = "stream" /\ last.l = KA("index", 1)
    /\ pc = "stream" /\ st = 1 /\ Len(streams) = 2

\* C7: a PACKET section closed without a stream_index line makes the call
\* return AVERROR_INVALIDDATA, whatever else it holds: no packet, no skip.
C7_NoStreamIndex ==
    (last.pc = "packet" /\ last.l.t = "close" /\ ~seen.stream_index) =>
        /\ pc = "idle"
        /\ result.ret = AVERROR_INVALIDDATA
        /\ result.pkt = NoPkt
C7_Witness ==
    /\ last.pc = "packet" /\ last.l.t = "close" /\ ~seen.stream_index
    /\ seen.data /\ Len(ffp.data) > 0

C9_NoPayloadSkipped ==
    [][(pc = "packet" /\ last'.l.t = "close" /\ seen.stream_index /\ ~seen.data) =>
          /\ pc' = "start" /\ call' = "packet"
          /\ result' = NoResult
          /\ ngot' = ngot
          /\ ffp'.packet_nb = ffp.packet_nb + 1]_vars
C9_Witness ==
    /\ last.pc = "packet" /\ last.l.t = "close"
    /\ seen.stream_index /\ ~seen.data
    /\ pc = "start" /\ call = "packet" /\ ffp.packet_nb = 2 /\ ngot = 1

\* C10: a packet returned from a section holding both X=<int> and X_time=<t>
\* has for X the value of the time line: t rescaled to the stream's time
\* base, AV_NOPTS_VALUE for N/A (0 for the duration).
TimeValue(name, t, tb) ==
    IF t.b = 1 THEN (IF name = "duration" THEN 0 ELSE AV_NOPTS_VALUE)
    ELSE av_rescale_q(t.a, tb)
C10_TimeAuthoritative ==
    (pc = "idle" /\ result.call = "packet" /\ result.ret = 0) =>
        \A name \in Fields :
            (seen[name] /\ seen[name \o "_time"] # NoTime) =>
                result.pkt[name] =
                    TimeValue(name, seen[name \o "_time"],
                              streams[result.pkt.stream_index + 1])

\* C11: a packet returned from a section whose X_time line is N/A (the last
\* one, if there are several) and that holds no raw X=<int> line has X unset:
\* AV_NOPTS_VALUE for pts and dts, 0 for the duration.
C11_Sentinel ==
    (pc = "idle" /\ result.call = "packet" /\ result.ret = 0) =>
        \A name \in Fields :
            (~seen[name] /\ seen[name \o "_time"] = TIME_NA(name \o "_time")) =>
                result.pkt[name] =
                    IF name = "duration" THEN 0 ELSE AV_NOPTS_VALUE
C11_Witness ==
    /\ pc = "idle" /\ result.call = "packet" /\ result.ret = 0
    /\ ~seen.pts /\ seen.pts_time = TIME_NA("pts_time")
    /\ result.pkt.pts = AV_NOPTS_VALUE

\* The grammar of a hex line: runs of hexadecimal digits separated by spaces,
\* every run made of two-digit groups.
RECURSIVE hex_groups(_, _)
hex_groups(cur, n) ==
    IF cur = <<>> THEN n % 2 = 0
    ELSE IF cur[1] = CH_SPACE THEN n % 2 = 0 /\ hex_groups(Tail(cur), 0)
    ELSE IsHexDigit(cur[1]) /\ hex_groups(Tail(cur), n + 1)

\* C12: a non-blank line of a hex block that is not made of two-digit
\* hexadecimal groups makes read_data fail: the call returns
\* AVERROR_INVALIDDATA and no packet.
C12_HexStrict ==
    (last.pc = "data" /\ read_section_line(last.l) > 0 /\ last.l.t # "blank"
        /\ ~hex_groups(LineChars(last.l), 0)) =>
        /\ pc = "idle"
        /\ result.ret = AVERROR_INVALIDDATA
        /\ result.pkt = NoPkt

\* C13: read in a STREAM section whose stream is selected, time_base=a/b with
\* a <= 0 or b <= 0 fails with AVERROR_INVALIDDATA and changes no stream;
\* with a > 0 and b > 0 the loop goes on and the stream's time base is a/b.
\* Every stream's time base has a positive numerator and denominator.
C13_TimeBase ==
    /\ [](\A i \in 1..Len(streams) : streams[i].num > 0 /\ streams[i].den > 0)
    /\ [][(pc = "stream" /\ st # -1 /\ last'.l.t = "time_base") =>
            IF last'.l.a <= 0 \/ last'.l.b <= 0
            THEN /\ pc' = "idle" /\ result'.ret = AVERROR_INVALIDDATA
                 /\ streams' = streams
            ELSE /\ pc' = "stream" /\ st' = st
                 /\ streams' = [streams EXCEPT ![st + 1].num = last'.l.a,
                                                ![st + 1].den = last'.l.b]]_vars
C13_Witness ==
    /\ last.pc = "stream" /\ last.l = L("time_base", 1, 1000, <<>>)
    /\ pc = "stream" /\ st = 0 /\ streams[1].num = 1 /\ streams[1].den = 1000

\* C14: a key=value line with an unrecognized key, read by the reader of a
\* FORMAT, STREAM or PACKET section at any position, causes no error: the
\* call is still running and the same reader reads the next line.
C14_UnknownKeyIgnored ==
    (last.pc \in {"format", "stream", "packet"} /\ last.l = K("other")) =>
        /\ pc = last.pc
        /\ call # "none"

\* The first word of a text: the run of characters that are no spaces after
\* the leading spaces, and the text after it.
TdStart(t) ==
    IF \E i \in 1..Len(t) : t[i] # CH_SPACE
    THEN CHOOSE i \in 1..Len(t) :
            t[i] # CH_SPACE /\ \A j \in 1..(i - 1) : t[j] = CH_SPACE
    ELSE Len(t) + 1
TdEnd(t) ==
    IF \E i \in TdStart(t)..Len(t) : t[i] = CH_SPACE
    THEN CHOOSE i \in TdStart(t)..Len(t) :
            t[i] = CH_SPACE /\ \A j \in TdStart(t)..(i - 1) : t[j] # CH_SPACE
    ELSE Len(t) + 1
TdWord(t) == SubSeq(t, TdStart(t), TdEnd(t) - 1)
TdAfter(t) == SubSeq(t, TdEnd(t), Len(t))
OnlySpaces(t) == \A i \in 1..Len(t) : t[i] = CH_SPACE
IsTime(w) == w # <<>> /\ \A i \in 1..Len(w) : w[i] = TD_ZERO

\* C15: fftextdata_read_packet returns AVERROR_EOF, without a warning, when
\* the input ends before a time token; AVERROR_EOF after a warning when it
\* ends after a time token with no data token; neither produces a packet
\* nor counts one. A time token that does not parse is an error other than
\* the end of input. A packet produced has AV_PKT_FLAG_KEY set and is
\* counted.
C15_TextdataEnd ==
    [][(td.state = "open" /\ td'.result.call = "packet" /\ td' # td) =>
          LET t == td.txt
              r == td'.result
          IN  /\ OnlySpaces(t) =>
                    /\ r.ret = AVERROR_EOF /\ ~r.warned /\ r.pkt = NoTdPkt
                    /\ td'.nb_packets = td.nb_packets
              /\ (IsTime(TdWord(t)) /\ OnlySpaces(TdAfter(t))) =>
                    /\ r.ret = AVERROR_EOF /\ r.warned /\ r.pkt = NoTdPkt
                    /\ td'.nb_packets = td.nb_packets
              /\ (~OnlySpaces(t) /\ ~IsTime(TdWord(t))) =>
                    /\ r.ret < 0 /\ r.ret # AVERROR_EOF /\ r.pkt = NoTdPkt
                    /\ td'.nb_packets = td.nb_packets
              /\ r.ret >= 0 =>
                    /\ r.pkt # NoTdPkt
                    /\ r.pkt.flags = AV_PKT_FLAG_KEY
                    /\ td'.nb_packets = td.nb_packets + 1]_vars
C15_Witness ==
    /\ td.result.call = "packet" /\ td.result.ret = AVERROR_EOF
    /\ td.result.warned /\ td.nb_packets = 1

\* C16: when the line that ends a hex block is the close marker of the
\* section holding it ("[/STREAM]" after extradata=, "[/PACKET]" after
\* data=), read_data puts exactly that line back: it is the next line the
\* section reader reads.
C16_Rewind ==
    (/\ last.pc = "data" /\ last.l.t = "close"
     /\ \/ pc = "packet" /\ last.l.a = SEC_PACKET
        \/ pc = "stream" /\ last.l.a = SEC_STREAM) =>
        /\ input # <<>>
        /\ Head(input) = last.l

\* C17: a STREAM section whose index=i names a stream an earlier STREAM
\* section described (its time base, codec or extradata is no longer that
\* of a new stream, which only a STREAM section changes) makes the call fail
\* with AVERROR_INVALIDDATA.
C17_DuplicateIndex ==
    [][(/\ pc = "stream" /\ st = -1 /\ last'.l.t = "index"
        /\ 0 <= last'.l.a /\ last'.l.a < Len(streams)
        /\ streams[last'.l.a + 1] # NewStream) =>
          /\ pc' = "idle"
          /\ result'.ret = AVERROR_INVALIDDATA]_vars

\* C18: the end of a non-empty extradata= hex block for a stream whose
\* extradata is already set is an error: the call returns
\* AVERROR_INVALIDDATA and no stream changes.
C18_ExtradataOnce ==
    [][(/\ pc = "data" /\ dcaller = "stream"
        /\ streams[st + 1].extradata # <<>> /\ ffp.data # <<>>
        /\ last'.l.t \in {"blank", "close"}) =>
          /\ pc' = "idle"
          /\ result'.ret = AVERROR_INVALIDDATA
          /\ streams' = streams]_vars

\* The layout of a hex block: the digits of the payload, high digit first,
\* in lines of BYTES_NB bytes, the last one shorter.
HexDigits(data) ==
    [x \in 1..(2 * Len(data)) |->
        IF x % 2 = 1 THEN data[(x + 1) \div 2] \div 16
        ELSE data[x \div 2] % 16]
HexLayout(data) ==
    LET ds == HexDigits(data)
        n == (Len(ds) + 2 * BYTES_NB - 1) \div (2 * BYTES_NB)
    IN  <<K("data")>>
        \o [x \in 1..n |->
               HEX(SubSeq(ds, 2 * BYTES_NB * (x - 1) + 1,
                          Min(2 * BYTES_NB * x, Len(ds))))]
        \o <<BLANK>>

\* C19: for every payload written, ffprobe_write_data emits "data=", the
\* 2*n hex digits of the payload in order in lines of at most 64 bytes, all
\* full but the last, and a blank line, and stores nothing past the end of
\* its buffer.
C19_HexLayout ==
    \A x \in 1..Len(mux.written) :
        LET w == ffprobe_write_data(mux.written[x].data)
        IN  /\ ~w.overrun
            /\ w.lines = HexLayout(mux.written[x].data)

\* The lines of a packet block before its hex block, as tags: a time stamp
\* that is set gives its time line then its raw line, one that is unset the
\* raw line with N/A.
StampTags(name, v, unset) ==
    IF v # unset THEN <<K(name \o "_time"), RAW(name, v)>> ELSE <<RAW_NA(name)>>
BlockHead(pkt) ==
    <<OPEN(SEC_PACKET), K("codec_type"), KA("stream_index", pkt.stream_index)>>
    \o StampTags("pts", pkt.pts, AV_NOPTS_VALUE)
    \o StampTags("dts", pkt.dts, AV_NOPTS_VALUE)
    \o StampTags("duration", pkt.duration, 0)
    \o <<KA("flags", IF pkt.flags % 2 = 1 THEN 1 ELSE 0)>>
LineTag(l) == IF l.t \in {"pts_time", "dts_time", "duration_time"} THEN K(l.t) ELSE l
\* txt is the blocks of the packets written from the x-th on: each a head,
\* "data=", hex lines, a blank line and "[/PACKET]".
RECURSIVE BlocksOk(_, _)
BlocksOk(txt, x) ==
    IF x > Len(mux.written) THEN txt = <<>>
    ELSE LET head == BlockHead(mux.written[x])
             n == Len(head)
             c == first_index(txt, CLOSE(SEC_PACKET))
         IN  /\ c <= Len(txt) /\ c >= n + 3
             /\ [y \in 1..n |-> LineTag(txt[y])] = head
             /\ txt[n + 1] = K("data")
             /\ \A y \in (n + 2)..(c - 2) : txt[y].t = "hex"
             /\ txt[c - 1] = BLANK
             /\ BlocksOk(SubSeq(txt, c + 1, Len(txt)), x + 1)

\* C20: the file written holds, after the FORMAT and STREAM blocks, one
\* block per ffprobe_write_packet call that returned, in call order: each
\* "[PACKET]", the media type, stream_index, the pts, dts and duration lines
\* (time then raw when set, raw N/A when unset), flags, the hex block,
\* "[/PACKET]", and nothing else.
C20_PacketBlock ==
    (mux.state = "open") =>
        LET n == 4 + 5 * Len(mux.streams)
        IN  /\ Len(input) >= n
            /\ input[1] = OPEN(SEC_FORMAT)
            /\ input[n] = CLOSE(SEC_STREAM)
            /\ \A y \in 1..n : input[y] # OPEN(SEC_PACKET)
            /\ BlocksOk(SubSeq(input, n + 1, Len(input)), 1)
C20_Witness ==
    /\ mux.state = "open" /\ Len(mux.written) = 2
    /\ mux.written[1].pts # AV_NOPTS_VALUE /\ mux.written[1].flags = AV_PKT_FLAG_KEY
    /\ mux.written[2].pts = AV_NOPTS_VALUE /\ Len(mux.written[2].data) > BYTES_NB

\* C21: every packet ffprobe_read_packet returns has a stream_index that is
\* the index of a stream, 0 <= stream_index < the stream count, and the
\* stream count never decreases.
C21_ExistingStream ==
    /\ []((pc = "idle" /\ result.call = "packet" /\ result.ret = 0) =>
            /\ 0 <= result.pkt.stream_index
            /\ result.pkt.stream_index < Len(streams))
    /\ [][Len(streams') >= Len(streams)]_vars
C21_Witness ==
    /\ pc = "idle" /\ result.call = "packet" /\ result.ret = 0
    /\ result.pkt.stream_index = 0 /\ Len(streams) = 1 /\ ngot = 2

\* The data part of a record: the characters after the time token up to the
\* first ';' or the end of input, spaces removed.
NotSpace(c) == c # CH_SPACE
DataPart(t) ==
    LET a == TdAfter(t)
    IN  SelectSeq(SubSeq(a, 1, first_index(a, TD_SEMI) - 1), NotSpace)

\* C22: after a time token, the data token fftextdata_read_packet reads is
\* the run of characters up to the first ';' or the end of input, without
\* its spaces and without a ';', also when that run is empty.
C22_DataToken ==
    [][(/\ td.state = "open" /\ td'.result.call = "packet" /\ td' # td
        /\ IsTime(TdWord(td.txt))) =>
          td'.result.token = DataPart(td.txt)]_vars

\* C23: after a FORMAT section, the first line read as a section start that
\* is not "[STREAM]" ends ffprobe_read_header: it returns 0 if the STREAM
\* sections read equal the stream count, AVERROR_INVALIDDATA if not, and in
\* no other way does it succeed. A section that line opened stays the
\* current one, and the next ffprobe_read_packet starts in its reader
\* without reading a line.
C23_HeaderCount ==
    /\ [][(/\ pc = "start" /\ call = "header" /\ hdr.stage = "streams"
            /\ last' # last /\ last'.l # OPEN(SEC_STREAM)) =>
              /\ pc' = "idle" /\ result'.call = "header"
              /\ result'.ret = IF hdr.nb_streams = Len(streams) THEN 0
                               ELSE AVERROR_INVALIDDATA
              /\ ffp'.section =
                    IF last'.l \in {OPEN(SEC_FORMAT), OPEN(SEC_PACKET)}
                    THEN last'.l.a ELSE SEC_NONE]_vars
    /\ []((/\ pc = "idle" /\ result.call = "header" /\ result.ret = 0
            /\ ~hdr.noheader) =>
              (last.pc = "start" /\ last.l # OPEN(SEC_STREAM)))
    /\ [][(/\ pc = "idle" /\ result.call = "header" /\ result.ret = 0
            /\ ffp.section # SEC_NONE /\ call' = "packet") =>
              /\ ffp'.section = ffp.section /\ input' = input /\ more' = more
              /\ pc' = IF ffp.section = SEC_PACKET THEN "packet"
                       ELSE IF ffp.section = SEC_STREAM THEN "stream"
                       ELSE "format"]_vars
C23_Witness ==
    /\ pc = "packet" /\ call = "packet" /\ last = NoLine
    /\ hdr.opened /\ ~hdr.noheader /\ ngot = 0 /\ ffp.packet_nb = 0
    /\ ffp.section = SEC_PACKET /\ Len(streams) = 1

PacketClose(l) == l.t = "close" /\ l.a = SEC_PACKET
\* C24: on a finite input every call of ffprobe_read_packet returns, with a
\* packet, the end of input or an error. The only step that moves the read
\* position back is read_data's on a "[/PACKET" line: it puts back an empty
\* line and that closing line, the caller reads the empty line again and
\* fails on it or goes on to the closing line, which ends its section, so a
\* closing line is read at most twice and a section read to its end leaves
\* less input than it found.
C24_Terminates ==
    /\ (call = "packet") ~> (pc = "idle" /\ result.call = "packet")
    /\ []((pc = "idle" /\ result.call = "packet") =>
            \/ result.ret = 0 /\ result.pkt.stream_index >= 0
            \/ result.ret < 0)
    /\ [][IF pc = "data" /\ PacketClose(last'.l)
          THEN /\ input' = <<BLANK, last'.l>> \o Tail(input)
               /\ pc' = dcaller /\ pc' \in {"packet", "stream"}
          ELSE pc \notin {"idle", "data"} \/ (pc = "data" /\ last' # last) =>
                 input' = Rest]_vars
    /\ [][(pc \in {"packet", "stream"} /\ last.pc = "data"
            /\ PacketClose(last.l)) =>
              /\ input' = Tail(input) /\ last'.l = BLANK
              /\ PacketClose(Head(input'))
              /\ pc' = pc \/ (pc' = "idle" /\ result'.ret < 0)]_vars
    /\ [][(/\ pc \in {"packet", "stream"} /\ last = [pc |-> pc, l |-> BLANK]
            /\ input # <<>> /\ PacketClose(Head(input))) =>
              /\ pc' \in {"idle", "start"} /\ input' = Tail(input)
              /\ ffp'.section = SEC_NONE]_vars
C24_Witness ==
    /\ pc = "idle" /\ result.call = "packet" /\ result.ret = 0
    /\ last = [pc |-> "packet", l |-> CLOSE(SEC_PACKET)]
    /\ seen.data /\ result.pkt.size = 2 /\ ngot = 1

====
